---- MODULE Spec2Model ----
(***************************************************************************)
(* Model of the two scripts of mina-multi-sig:                             *)
(*   scripts/array_compare.py        the witness comparator                *)
(*   scripts/json_to_zkapp_mapper.py the JSON -> ZkAppCommand mapper       *)
(*                                                                         *)
(* Python strings are sequences of one-character strings, so that upper(), *)
(* lower(), rstrip(), int() and str() are computed and not assumed.        *)
(* SpecCmp is the run of array_compare.py, SpecMap the run of the mapper.  *)
(***************************************************************************)
EXTENDS Integers, Sequences, FiniteSets, TLC

VARIABLES
    \* array_compare.py
    textA,          \* the text blob, as the sequence of its chunks
    arrayB,         \* the reference sequence
    convertedA,     \* parse_format_A(textA)
    mismatches,     \* compare_arrays(convertedA, arrayB)
    stdout,         \* the lines printed so far
    pc,             \* position of the module-level driver
    \* json_to_zkapp_mapper.py
    js_data,            \* the parsed input tree
    formatted_updates,  \* the local list of generate_zkapp_command
    idx,                \* the loop index of generate_zkapp_command
    rust_code,          \* what main prints: the canonical record, or NoCode
    exit_code,          \* the exit status of main
    mpc                 \* position of main / generate_zkapp_command

cmpVars == <<textA, arrayB, convertedA, mismatches, stdout, pc>>
mapVars == <<js_data, formatted_updates, idx, rust_code, exit_code, mpc>>
vars == <<textA, arrayB, convertedA, mismatches, stdout, pc,
          js_data, formatted_updates, idx, rust_code, exit_code, mpc>>

\* ------------------------------------------------------------------ bounds
MaxTokens == 2      \* chunks in the text blob
MaxRef == 2         \* pairs in the reference sequence
MaxUpdates == 2     \* account updates in the input tree
MaxFieldInt == 12   \* largest small integer handed to format_field
MaxDigits == 2      \* longest digit string handed to format_field

\* ------------------------------------------------------------- Python str
LowerLetters == <<"a","b","c","d","e","f","g","h","i","j","k","l","m",
                  "n","o","p","q","r","s","t","u","v","w","x","y","z">>
UpperLetters == <<"A","B","C","D","E","F","G","H","I","J","K","L","M",
                  "N","O","P","Q","R","S","T","U","V","W","X","Y","Z">>
DigitChars == <<"0","1","2","3","4","5","6","7","8","9">>

UpperChar(c) ==
    IF \E i \in 1..26 : LowerLetters[i] = c
    THEN UpperLetters[CHOOSE i \in 1..26 : LowerLetters[i] = c]
    ELSE c

LowerChar(c) ==
    IF \E i \in 1..26 : UpperLetters[i] = c
    THEN LowerLetters[CHOOSE i \in 1..26 : UpperLetters[i] = c]
    ELSE c

\* str.upper() and str.lower()
upper(s) == [i \in 1..Len(s) |-> UpperChar(s[i])]
lower(s) == [i \in 1..Len(s) |-> LowerChar(s[i])]

IsDigitChar(c) == \E i \in 1..10 : DigitChars[i] = c
DigitVal(c) == (CHOOSE i \in 1..10 : DigitChars[i] = c) - 1

\* str.isdigit(): non-empty and every character a digit
isdigit(s) == Len(s) > 0 /\ \A i \in 1..Len(s) : IsDigitChar(s[i])

\* int(s) of a digit string, left to right
RECURSIVE IntOfDigits(_)
IntOfDigits(s) ==
    IF Len(s) = 0 THEN 0
    ELSE 10 * IntOfDigits(SubSeq(s, 1, Len(s) - 1)) + DigitVal(s[Len(s)])

\* int(s): the number, or the ValueError a non-numeric string raises
ValueError == [exc |-> "ValueError"]
TypeError == [exc |-> "TypeError"]
KeyError == [exc |-> "KeyError"]
Ok(v) == [exc |-> "none", val |-> v]
Raised(r) == r.exc # "none"

int(s) == IF isdigit(s) THEN Ok(IntOfDigits(s)) ELSE ValueError

\* str.rstrip("n"): drop every trailing 'n'
RECURSIVE rstrip_n(_)
rstrip_n(s) ==
    IF Len(s) > 0 /\ s[Len(s)] = "n" THEN rstrip_n(SubSeq(s, 1, Len(s) - 1))
    ELSE s

\* a | b on non-negative integers
RECURSIVE BitOr(_, _)
BitOr(a, b) ==
    IF a = 0 THEN b
    ELSE IF b = 0 THEN a
    ELSE 2 * BitOr(a \div 2, b \div 2) + (IF a % 2 = 1 \/ b % 2 = 1 THEN 1 ELSE 0)

\* ------------------------------------------------------- array_compare.py
S_true == <<"t","r","u","e">>
S_BOOL == <<"B","O","O","L">>
S_U32 == <<"U","3","2">>
S_U64 == <<"U","6","4">>
S_BYTES == <<"B","Y","T","E","S">>

\* A chunk of the text blob: a type word, then `{ val: ... }` whose value is
\* a word (k = "text", its characters in s), a bracketed list (k = "list",
\* its elements in items) or anything else (k = "junk").
Chunk(type, k, s, items) == [type |-> type, k |-> k, s |-> s, items |-> items]

\* The value the regular expression hands on: m.group("val")
ValOf(c) == [k |-> c.k, s |-> c.s, items |-> c.items]

\* The pattern of parse_format_A (re.IGNORECASE): a known type word followed
\* by true|false, digits, or a bracketed list.
PatternMatches(c) ==
    /\ upper(c.type) \in {S_BOOL, S_U32, S_U64, S_BYTES}
    /\ \/ c.k = "text" /\ (lower(c.s) \in {S_true, <<"f","a","l","s","e">>} \/ isdigit(c.s))
       \/ c.k = "list"

parse_bool(token) ==
    LET val == token.k = "text" /\ lower(token.s) = S_true
    IN  Ok(<<IF val THEN 1 ELSE 0, 1>>)

parse_u32(token) ==
    LET n == IF token.k = "text" THEN int(token.s) ELSE ValueError
    IN  IF Raised(n) THEN n ELSE Ok(<<n.val, 32>>)

parse_u64_Width32(token) ==
    LET n == IF token.k = "text" THEN int(token.s) ELSE ValueError
    IN  IF Raised(n) THEN n ELSE Ok(<<n.val, 32>>)

parse_u64(token) ==
    LET n == IF token.k = "text" THEN int(token.s) ELSE ValueError
    IN  IF Raised(n) THEN n ELSE Ok(<<n.val, 64>>)

\* value = (value << 8) | b over the list, from the left
RECURSIVE ShiftOrBytes(_)
ShiftOrBytes(arr) ==
    IF Len(arr) = 0 THEN 0
    ELSE BitOr(ShiftOrBytes(SubSeq(arr, 1, Len(arr) - 1)) * 256, arr[Len(arr)])

parse_bytes(token) ==
    IF token.k = "list" THEN Ok(<<ShiftOrBytes(token.items), Len(token.items) * 8>>)
    ELSE IF isdigit(token.s) THEN TypeError     \* len() of an int
    ELSE ValueError                             \* ast.literal_eval("true")

\* One iteration of the loop over pattern.finditer(text)
DecodeMatch(c) ==
    LET t == upper(c.type)
        v == ValOf(c)
    IN  IF t = S_BOOL THEN parse_bool(v)
        ELSE IF t = S_U32 THEN parse_u32(v)
        ELSE IF t = S_U64 THEN parse_u64(v)
        ELSE IF t = S_BYTES THEN parse_bytes(v)
        ELSE ValueError

\* parse_format_A(text): finditer yields the chunks the pattern matches and
\* passes over the rest of the text; the first exception ends the call.
RECURSIVE ParseFrom(_, _, _)
ParseFrom(text, i, result) ==
    IF i > Len(text) THEN Ok(result)
    ELSE IF ~PatternMatches(text[i]) THEN ParseFrom(text, i + 1, result)
    ELSE LET r == DecodeMatch(text[i])
         IN  IF Raised(r) THEN r ELSE ParseFrom(text, i + 1, Append(result, r.val))

parse_format_A(text) == ParseFrom(text, 1, <<>>)

\* A reference value: a number (k = "int") or a string (k = "str")
RefInt(n) == [k |-> "int", n |-> n, s |-> <<>>]
RefStr(s) == [k |-> "str", n |-> 0, s |-> s]

\* b0 = int(str(b[0]).rstrip("n")) if isinstance(b[0], str) else int(b[0])
NormaliseB0(v) == IF v.k = "str" THEN int(rstrip_n(v.s)) ELSE Ok(v.n)

Min(a, b) == IF a < b THEN a ELSE b

\* L = min(len(arr1), len(arr2))
CommonLen(arr1, arr2) == Min(Len(arr1), Len(arr2))

PairDiffers_ValueOnly(a, b0, b1) == a[1] # b0

\* if a != [b0, b1]
PairDiffers(a, b0, b1) == a # <<b0, b1>>

\* The loop of compare_arrays over range(L), from index i (0-based)
RECURSIVE CompareFrom(_, _, _, _)
CompareFrom(arr1, arr2, i, acc) ==
    IF i >= CommonLen(arr1, arr2) THEN Ok(acc)
    ELSE LET a == arr1[i + 1]
             b == arr2[i + 1]
             b0 == NormaliseB0(b[1])
             b1 == b[2]
         IN  IF Raised(b0) THEN b0
             ELSE IF PairDiffers(a, b0.val, b1)
                  THEN CompareFrom(arr1, arr2, i + 1, Append(acc, <<i, a, <<b0.val, b1>>>>))
                  ELSE CompareFrom(arr1, arr2, i + 1, acc)

compare_arrays(arr1, arr2) == CompareFrom(arr1, arr2, 0, <<>>)

Line(k, i, a, b) == [k |-> k, i |-> i, a |-> a, b |-> b]
LengthLine(arr1, arr2) == Line("Length mismatch", 0, <<Len(arr1), 0>>, <<Len(arr2), 0>>)
MatchLine == Line("Arrays match exactly", 0, <<0, 0>>, <<0, 0>>)
FoundLine == Line("Mismatches found", 0, <<0, 0>>, <<0, 0>>)
IndexLine(m) == Line("Index", m[1], m[2], m[3])

LengthNote_ShorterOnly(arr1, arr2, out) ==
    IF Len(arr1) < Len(arr2) THEN Append(out, LengthLine(arr1, arr2)) ELSE out

\* if len(arr1) != len(arr2): print("Length mismatch: ...")
LengthNote(arr1, arr2, out) ==
    IF Len(arr1) # Len(arr2) THEN Append(out, LengthLine(arr1, arr2)) ELSE out

\* The inputs of the run
Chunks ==
    { Chunk(S_BOOL, "text", S_true, <<>>),
      Chunk(<<"b","o","o","l">>, "text", <<"F","A","L","S","E">>, <<>>),
      Chunk(S_U32, "text", <<"3">>, <<>>),
      Chunk(S_U64, "text", <<"1","2">>, <<>>),
      Chunk(S_BYTES, "list", <<>>, <<0, 1>>),
      Chunk(S_BYTES, "list", <<>>, <<1, 255>>),
      Chunk(<<"F","O","O">>, "text", <<"1">>, <<>>),     \* unknown type word
      Chunk(S_U32, "junk", <<"-","1">>, <<>>),           \* value outside the grammar
      Chunk(S_BOOL, "text", <<"3">>, <<>>),              \* BOOL with a number
      Chunk(S_U32, "text", S_true, <<>>) }               \* U32 with a boolean

RefPairs ==
    { <<RefInt(1), 1>>, <<RefStr(<<"3","n">>), 32>>,
      <<RefInt(4), 32>>, <<RefInt(3), 64>> }

SeqsUpTo(S, n) == UNION { [1..k -> S] : k \in 0..n }

NoCode == [kind |-> "none"]
MapIdle ==
    /\ js_data = [idle |-> TRUE]
    /\ formatted_updates = <<>>
    /\ idx = 0
    /\ rust_code = NoCode
    /\ exit_code = 0
    /\ mpc = "idle"

InitCmp ==
    /\ textA \in SeqsUpTo(Chunks, MaxTokens)
    /\ arrayB \in SeqsUpTo(RefPairs, MaxRef)
    /\ convertedA = <<>>
    /\ mismatches = <<>>
    /\ stdout = <<>>
    /\ pc = "parse"
    /\ MapIdle

\* convertedA = parse_format_A(textA)
ParseFormatA ==
    /\ pc = "parse"
    /\ LET r == parse_format_A(textA)
       IN  IF Raised(r)
           THEN pc' = "raised" /\ convertedA' = convertedA
           ELSE pc' = "compare" /\ convertedA' = r.val
    /\ UNCHANGED <<textA, arrayB, mismatches, stdout>>
    /\ UNCHANGED mapVars

\* mismatches = compare_arrays(convertedA, arrayB)
CompareArrays ==
    /\ pc = "compare"
    /\ LET r == compare_arrays(convertedA, arrayB)
           printed == LengthNote(convertedA, arrayB, stdout)
       IN  /\ stdout' = printed
           /\ IF Raised(r)
              THEN pc' = "raised" /\ mismatches' = mismatches
              ELSE pc' = "report" /\ mismatches' = r.val
    /\ UNCHANGED <<textA, arrayB, convertedA>>
    /\ UNCHANGED mapVars

\* if not mismatches: print match, else print every mismatch
Report ==
    /\ pc = "report"
    /\ stdout' = IF mismatches = <<>>
                 THEN Append(stdout, MatchLine)
                 ELSE Append(stdout, FoundLine)
                        \o [j \in 1..Len(mismatches) |-> IndexLine(mismatches[j])]
    /\ pc' = "done"
    /\ UNCHANGED <<textA, arrayB, convertedA, mismatches>>
    /\ UNCHANGED mapVars

NextCmp == ParseFormatA \/ CompareArrays \/ Report

SpecCmp == InitCmp /\ [][NextCmp]_vars

\* -------------------------------------------------- json_to_zkapp_mapper.py
\* A value of the input tree.  A mapping is a record (a function on its
\* keys); the mappings the script only indexes are bare records, the values
\* it tests with `is None` or isinstance carry a tag.
NoneV == [t |-> "None"]
StrV(s) == [t |-> "str", s |-> s]
IntV(n) == [t |-> "int", n |-> n]
BoolV(b) == [t |-> "bool", b |-> b]
DictV(d) == [t |-> "dict", d |-> d]

HasKey(d, k) == k \in DOMAIN d
HasKeys(d, ks) == ks \subseteq DOMAIN d

\* str(n) of an integer
RECURSIVE NatToStr(_)
NatToStr(n) ==
    IF n < 10 THEN <<DigitChars[n + 1]>>
    ELSE NatToStr(n \div 10) \o <<DigitChars[(n % 10) + 1]>>

IntToStr(n) == IF n < 0 THEN <<"-">> \o NatToStr(-n) ELSE NatToStr(n)

\* str(value), the text an f-string interpolates
PyStr(v) ==
    IF v.t = "None" THEN <<"N","o","n","e">>
    ELSE IF v.t = "str" THEN v.s
    ELSE IF v.t = "int" THEN IntToStr(v.n)
    ELSE IF v.t = "bool" THEN (IF v.b THEN <<"T","r","u","e">> ELSE <<"F","a","l","s","e">>)
    ELSE <<"{","}">>

\* s.replace(c, rep) for a one-character c
RECURSIVE Replace(_, _, _)
Replace(s, c, rep) ==
    IF Len(s) = 0 THEN <<>>
    ELSE (IF s[1] = c THEN rep ELSE <<s[1]>>) \o Replace(SubSeq(s, 2, Len(s)), c, rep)

escape_string(s) ==
    Replace(Replace(Replace(Replace(s, "\\", <<"\\","\\">>), "\"", <<"\\","\"">>),
                    "\n", <<"\\","n">>), "\r", <<"\\","r">>)

FieldDefault == [rust |-> "Field::default()", text |-> <<>>]
FieldFromStr(text) == [rust |-> "Field(Fp::from_str)", text |-> text]

format_field_ZeroDefault(value) ==
    IF value.t = "None" \/ (value.t = "int" /\ value.n = 0) THEN FieldDefault
    ELSE FieldFromStr(PyStr(value))

format_field(value) ==
    IF value.t = "None" THEN FieldDefault
    ELSE IF value.t = "str" /\ isdigit(value.s) THEN FieldFromStr(value.s)
    ELSE IF value.t = "int" THEN FieldFromStr(PyStr(value))
    ELSE FieldFromStr(PyStr(value))

format_public_key(key_data) ==
    IF key_data.t = "str"
    THEN [rust |-> "CompressedPubKey::from_address", addr |-> key_data.s,
          x |-> FieldDefault, is_odd |-> <<>>]
    ELSE IF key_data.t = "dict" /\ HasKey(key_data.d, "x")
    THEN [rust |-> "PublicKey", addr |-> <<>>,
          x |-> format_field(key_data.d.x),
          is_odd |-> lower(PyStr(IF HasKey(key_data.d, "isOdd")
                                 THEN key_data.d.isOdd ELSE BoolV(FALSE)))]
    ELSE [rust |-> "PublicKey::default()", addr |-> <<>>, x |-> FieldDefault, is_odd |-> <<>>]

OptionalValue(is_some, value) == [is_some |-> is_some, value |-> value]

RangeDefault == [lower |-> <<>>, upper |-> <<>>, type_name |-> "default"]

\* range_data.get(key, 0)
GetOrZero(d, k) == IF HasKey(d, k) THEN d[k] ELSE IntV(0)

format_range_condition(range_data, type_name) ==
    IF range_data.t = "None" THEN OptionalValue(FALSE, RangeDefault)
    ELSE LET lower_ == GetOrZero(range_data.d, "lower")
             upper_ == GetOrZero(range_data.d, "upper")
         IN  OptionalValue(TRUE, [lower |-> PyStr(lower_), upper |-> PyStr(upper_),
                                  type_name |-> type_name])

S_None == <<"N","o","n","e">>
S_Either == <<"E","i","t","h","e","r">>
S_Proof == <<"P","r","o","o","f">>
S_Signature == <<"S","i","g","n","a","t","u","r","e">>
S_Impossible == <<"I","m","p","o","s","s","i","b","l","e">>
S_Both == <<"B","o","t","h">>

AuthRequired(c, n, s) ==
    [rust |-> "AuthRequired", constant |-> c,
     signature_necessary |-> n, signature_sufficient |-> s]
AuthRequiredDefault == [rust |-> "AuthRequired::default()"]

\* auth_mapping.get(auth_str, "AuthRequired::default()")
format_auth_required(auth_str) ==
    IF auth_str = S_Signature THEN AuthRequired(TRUE, TRUE, TRUE)
    ELSE IF auth_str = S_Impossible THEN AuthRequired(TRUE, FALSE, FALSE)
    ELSE IF auth_str = S_Either THEN AuthRequired(FALSE, FALSE, FALSE)
    ELSE IF auth_str = S_Proof THEN AuthRequired(TRUE, FALSE, FALSE)
    ELSE IF auth_str = S_None THEN AuthRequired(FALSE, FALSE, FALSE)
    ELSE AuthRequiredDefault

format_app_state(app_state) ==
    [i \in 1..Len(app_state) |->
        IF app_state[i].t = "None" THEN OptionalValue(FALSE, FieldDefault)
        ELSE OptionalValue(TRUE, format_field(app_state[i]))]

format_account_state(state) ==
    [i \in 1..Len(state) |->
        IF state[i].t = "None" THEN OptionalValue(FALSE, FieldDefault)
        ELSE OptionalValue(TRUE, format_field(state[i]))]

\* `not value` for the values the script tests this way: None, or an empty mapping
Falsy(v) == v.t = "None" \/ (v.t = "dict" /\ DOMAIN v.d = {})

\* d.get(k, default)
GetOr(d, k, default) == IF HasKey(d, k) THEN d[k] ELSE default

format_verification_key(vk_data) ==
    IF Falsy(vk_data)
    THEN OptionalValue(FALSE, [rust |-> "VerificationKeyData::default()"])
    ELSE OptionalValue(TRUE,
            [ rust |-> "VerificationKeyData",
              data |-> escape_string(PyStr(GetOr(vk_data.d, "data", StrV(<<>>)))),
              hash |-> format_field(GetOr(vk_data.d, "hash", StrV(<<"0">>))) ])

\* format_auth_required(permissions.get(key, "None"))
AuthOf(permissions, key) ==
    LET v == GetOr(permissions, key, StrV(S_None))
    IN  IF v.t = "str" THEN format_auth_required(v.s) ELSE AuthRequiredDefault

format_permissions(permissions) ==
    IF Falsy(permissions)
    THEN OptionalValue(FALSE, [rust |-> "Permissions::default()"])
    ELSE LET p == permissions.d
             set_vk == GetOr(p, "setVerificationKey", DictV(<<>>))
             auth == IF set_vk.t = "dict" THEN GetOr(set_vk.d, "auth", StrV(S_None))
                     ELSE StrV(S_None)
             txn_version == IF set_vk.t = "dict"
                            THEN GetOr(set_vk.d, "txnVersion", StrV(<<"0">>))
                            ELSE StrV(<<"0">>)
         IN  OptionalValue(TRUE,
                [ rust |-> "Permissions",
                  edit_state |-> AuthOf(p, "editState"),
                  access |-> AuthOf(p, "access"),
                  send |-> AuthOf(p, "send"),
                  receive |-> AuthOf(p, "receive"),
                  set_delegate |-> AuthOf(p, "setDelegate"),
                  set_permissions |-> AuthOf(p, "setPermissions"),
                  set_verification_key |->
                      [ auth |-> IF auth.t = "str" THEN format_auth_required(auth.s)
                                 ELSE AuthRequiredDefault,
                        txn_version |-> PyStr(txn_version) ],
                  set_zkapp_uri |-> AuthOf(p, "setZkappUri"),
                  edit_action_state |-> AuthOf(p, "editActionState"),
                  set_token_symbol |-> AuthOf(p, "setTokenSymbol"),
                  increment_nonce |-> AuthOf(p, "incrementNonce"),
                  set_voting_for |-> AuthOf(p, "setVotingFor"),
                  set_timing |-> AuthOf(p, "setTiming") ])

format_timing(timing_data) ==
    IF Falsy(timing_data)
    THEN OptionalValue(FALSE, [rust |-> "TimingData::default()"])
    ELSE LET t == timing_data.d
         IN  OptionalValue(TRUE,
                [ rust |-> "TimingData",
                  initial_minimum_balance |-> PyStr(GetOrZero(t, "initialMinimumBalance")),
                  cliff_time |-> PyStr(GetOrZero(t, "cliffTime")),
                  cliff_amount |-> PyStr(GetOrZero(t, "cliffAmount")),
                  vesting_period |-> PyStr(GetOrZero(t, "vestingPeriod")),
                  vesting_increment |-> PyStr(GetOrZero(t, "vestingIncrement")) ])

format_optional_field(value) ==
    IF value.t = "None" THEN OptionalValue(FALSE, FieldDefault)
    ELSE OptionalValue(TRUE, format_field(value))

format_optional_public_key(value) ==
    IF value.t = "None" THEN OptionalValue(FALSE, format_public_key(NoneV))
    ELSE OptionalValue(TRUE, format_public_key(value))

\* zkapp_uri_formatted and token_symbol_formatted: the payload is the default
\* whether or not the input is None
StringDataDefault(rust) == [rust |-> rust, text |-> <<>>]

format_string_data(value, rust) ==
    IF value.t # "None" THEN OptionalValue(TRUE, StringDataDefault(rust))
    ELSE OptionalValue(FALSE, StringDataDefault(rust))

\* valid_until: Some({fee_payer["body"]["validUntil"]})
SomeOf(value) == [some |-> TRUE, inner |-> PyStr(value)]

S_Positive == <<"P","o","s","i","t","i","v","e">>
S_Negative == <<"N","e","g","a","t","i","v","e">>

sgn_value_Zero(sgn) ==
    IF sgn.t = "str" /\ sgn.s = S_Positive THEN 1
    ELSE IF sgn.t = "str" /\ sgn.s = S_Negative THEN -1
    ELSE 0

sgn_value_NegativeOnly(sgn) == IF sgn.t = "str" /\ sgn.s = S_Negative THEN -1 ELSE 1

\* sgn_value = "1" if sgn == "Positive" else "-1"
sgn_value(sgn) == IF sgn.t = "str" /\ sgn.s = S_Positive THEN 1 ELSE -1

\* d.get(k)
GetOrNone(d, k) == IF HasKey(d, k) THEN d[k] ELSE NoneV

\* format_account_update(update, index): the record of one account update, or
\* the KeyError of the first missing key.  Of the body the model keeps
\* publicKey, tokenId, the whole update block, balanceChange and
\* preconditions.account.{balance, nonce, state}.
format_account_update(update, index) ==
    IF ~HasKey(update, "body") THEN KeyError
    ELSE LET body == update.body
         IN  IF ~HasKeys(body, {"balanceChange", "preconditions", "update", "publicKey", "tokenId"})
                THEN KeyError
             ELSE IF ~HasKeys(body.balanceChange, {"magnitude", "sgn"}) THEN KeyError
             ELSE IF ~HasKey(body.preconditions, "account") THEN KeyError
             ELSE IF ~HasKey(body.update, "appState") THEN KeyError
             ELSE IF ~HasKey(body.preconditions.account, "state") THEN KeyError
             ELSE LET account == body.preconditions.account
                      update_data == body.update
                  IN  Ok([ comment |-> index + 1,
                           public_key |-> format_public_key(body.publicKey),
                           token_id |-> format_field(body.tokenId),
                           app_state |-> format_app_state(update_data.appState),
                           delegate |-> format_optional_public_key(GetOrNone(update_data, "delegate")),
                           verification_key |->
                               format_verification_key(GetOrNone(update_data, "verificationKey")),
                           permissions |-> format_permissions(GetOrNone(update_data, "permissions")),
                           zkapp_uri |-> format_string_data(GetOrNone(update_data, "zkappUri"),
                                                            "ZkappUriData::default()"),
                           token_symbol |-> format_string_data(GetOrNone(update_data, "tokenSymbol"),
                                                               "TokenSymbolData::default()"),
                           timing |-> format_timing(GetOrNone(update_data, "timing")),
                           voting_for |-> format_optional_field(GetOrNone(update_data, "votingFor")),
                           magnitude |-> PyStr(body.balanceChange.magnitude),
                           sgn |-> sgn_value(body.balanceChange.sgn),
                           balance |-> format_range_condition(GetOrNone(account, "balance"), "u64"),
                           nonce |-> format_range_condition(GetOrNone(account, "nonce"), "u32"),
                           state |-> format_account_state(account.state) ])


\* generate_zkapp_command's return value, once every update is formatted
ZkAppTestVector(fee_payer, updates, memo) ==
    IF ~HasKeys(fee_payer, {"body", "authorization"}) THEN KeyError
    ELSE IF ~HasKeys(fee_payer.body, {"publicKey", "fee", "validUntil", "nonce"}) THEN KeyError
    ELSE Ok([ kind |-> "ZkAppTestVector",
              fee_payer |->
                  [ public_key |-> format_public_key(fee_payer.body.publicKey),
                    fee |-> PyStr(fee_payer.body.fee),
                    valid_until |-> SomeOf(fee_payer.body.validUntil),
                    nonce |-> PyStr(fee_payer.body.nonce),
                    authorization |-> escape_string(fee_payer.authorization.s) ],
              account_updates |-> updates,
              memo |-> escape_string(memo.s) ])

\* ---- the input trees of the run
NoState == [i \in 1..8 |-> NoneV]

BaseBody ==
    [ publicKey |-> StrV(<<"B","6","2","a">>),
      tokenId |-> StrV(<<"1">>),
      update |-> [ appState |-> [NoState EXCEPT ![2] = StrV(<<"1">>), ![8] = IntV(7)] ],
      balanceChange |-> [ magnitude |-> StrV(<<"1","0">>), sgn |-> StrV(S_Positive) ],
      preconditions |-> [ account |-> [ state |-> NoState, balance |-> NoneV ] ] ]

WithKey(b, pk) == [b EXCEPT !.publicKey = StrV(pk)]
WithSgn(b, label) == [b EXCEPT !.balanceChange.sgn = StrV(label)]
WithAppState(b, arr) == [b EXCEPT !.update.appState = arr]
WithState(b, arr) == [b EXCEPT !.preconditions.account.state = arr]
WithBalance(b, r) == [b EXCEPT !.preconditions.account.balance = r]

Bodies ==
    { BaseBody,
      WithKey(BaseBody, <<"B","6","2","b">>),
      WithSgn(BaseBody, S_Negative),
      WithSgn(BaseBody, <<"U","n","k","n","o","w","n">>),
      WithAppState(BaseBody, <<NoneV, StrV(<<"1">>)>>),
      WithAppState(BaseBody, [i \in 1..9 |-> IF i = 9 THEN IntV(9) ELSE NoneV]),
      WithState(BaseBody, [NoState EXCEPT ![1] = StrV(<<"5">>)]),
      WithState(BaseBody, <<NoneV>>),
      WithBalance(BaseBody, DictV([lower |-> IntV(1), upper |-> IntV(5)])),
      WithBalance(BaseBody, DictV([upper |-> IntV(5)])),
      WithBalance(BaseBody, DictV([lower |-> IntV(1)])) }

\* an account update, with its body or with the authorization alone
Updates ==
    { [body |-> b, authorization |-> NoneV] : b \in Bodies }
        \cup { [authorization |-> NoneV] }

BaseFeePayer ==
    [ body |-> [ publicKey |-> StrV(<<"B","6","2","f">>), fee |-> IntV(100),
                 validUntil |-> IntV(5), nonce |-> IntV(0) ],
      authorization |-> StrV(<<"s","i","g">>) ]

BaseMemo == StrV(<<"m","\"">>)

\* the fee payer, also with a null validUntil and without the key
FeePayers ==
    { BaseFeePayer,
      [BaseFeePayer EXCEPT !.body.validUntil = NoneV],
      [BaseFeePayer EXCEPT !.body = [publicKey |-> StrV(<<"B","6","2","f">>),
                                     fee |-> IntV(100), nonce |-> IntV(0)]] }

Documents ==
    UNION { { [feePayer |-> fp, accountUpdates |-> us, memo |-> BaseMemo] : fp \in FeePayers }
            \cup { [feePayer |-> BaseFeePayer, accountUpdates |-> us],
                   [accountUpdates |-> us, memo |-> BaseMemo],
                   [feePayer |-> BaseFeePayer, memo |-> BaseMemo] }
            : us \in SeqsUpTo(Updates, MaxUpdates) }

CmpIdle ==
    /\ textA = <<>>
    /\ arrayB = <<>>
    /\ convertedA = <<>>
    /\ mismatches = <<>>
    /\ stdout = <<>>
    /\ pc = "idle"

InitMap ==
    /\ js_data \in Documents
    /\ formatted_updates = <<>>
    /\ idx = 0
    /\ rust_code = NoCode
    /\ exit_code = 0
    /\ mpc = "main"
    /\ CmpIdle

\* formatted_updates.append(...)
AppendUpdate_Front(list, item) == <<item>> \o list

AppendUpdate(list, item) == Append(list, item)

Fail_Partial ==
    /\ mpc' = "done"
    /\ exit_code' = 0
    /\ rust_code' = [kind |-> "ZkAppTestVector", account_updates |-> formatted_updates]

\* main's `except Exception`: print the error, sys.exit(1)
Fail ==
    /\ mpc' = "failed"
    /\ exit_code' = 1
    /\ rust_code' = NoCode

\* generate_zkapp_command, up to the loop: the three required lookups
GenerateStart ==
    /\ mpc = "main"
    /\ IF HasKeys(js_data, {"feePayer", "accountUpdates", "memo"})
       THEN mpc' = "loop" /\ UNCHANGED <<rust_code, exit_code>>
       ELSE Fail
    /\ UNCHANGED <<js_data, formatted_updates, idx>>
    /\ UNCHANGED cmpVars

\* one iteration of `for i, update in enumerate(account_updates)`
FormatNextUpdate ==
    /\ mpc = "loop"
    /\ idx < Len(js_data.accountUpdates)
    /\ LET r == format_account_update(js_data.accountUpdates[idx + 1], idx)
       IN  IF Raised(r)
           THEN Fail /\ UNCHANGED <<formatted_updates, idx>>
           ELSE /\ formatted_updates' = AppendUpdate(formatted_updates, r.val)
                /\ idx' = idx + 1
                /\ UNCHANGED <<mpc, rust_code, exit_code>>
    /\ UNCHANGED js_data
    /\ UNCHANGED cmpVars

\* the return of generate_zkapp_command and main's print(rust_code)
EmitCommand ==
    /\ mpc = "loop"
    /\ idx = Len(js_data.accountUpdates)
    /\ LET r == ZkAppTestVector(js_data.feePayer, formatted_updates, js_data.memo)
       IN  IF Raised(r)
           THEN Fail
           ELSE mpc' = "done" /\ rust_code' = r.val /\ exit_code' = 0
    /\ UNCHANGED <<js_data, formatted_updates, idx>>
    /\ UNCHANGED cmpVars

NextMap == GenerateStart \/ FormatNextUpdate \/ EmitCommand

SpecMap == InitMap /\ [][NextMap]_vars

\* ---- the run of the mapper over trees that vary the optional fields
WithUpdateField(b, key, v) ==
    [b EXCEPT !.update = [k \in DOMAIN b.update \cup {key} |->
                            IF k = key THEN v ELSE b.update[k]]]

OptBodies ==
    { BaseBody,
      WithUpdateField(BaseBody, "delegate", StrV(<<"B","6","2","d">>)),
      WithUpdateField(BaseBody, "delegate", NoneV),
      WithUpdateField(BaseBody, "verificationKey",
                      DictV([data |-> StrV(<<"v","k">>), hash |-> StrV(<<"3">>)])),
      WithUpdateField(BaseBody, "verificationKey", DictV(<<>>)),
      WithUpdateField(BaseBody, "permissions",
                      DictV([editState |-> StrV(S_Proof),
                             setVerificationKey |->
                                 DictV([auth |-> StrV(S_Signature), txnVersion |-> IntV(3)])])),
      WithUpdateField(BaseBody, "permissions", DictV(<<>>)),
      WithUpdateField(BaseBody, "timing", DictV([cliffTime |-> IntV(4)])),
      WithUpdateField(BaseBody, "timing", DictV(<<>>)),
      WithUpdateField(BaseBody, "votingFor", StrV(<<"9">>)),
      WithUpdateField(BaseBody, "zkappUri", StrV(<<"u","\"","a">>)),
      WithUpdateField(BaseBody, "zkappUri", StrV(<<"u","b">>)),
      WithUpdateField(BaseBody, "tokenSymbol", StrV(<<"T","A">>)),
      WithUpdateField(BaseBody, "tokenSymbol", StrV(<<"T","B">>)) }

OptDocuments ==
    { [feePayer |-> fp, accountUpdates |-> us, memo |-> BaseMemo] :
        fp \in { BaseFeePayer, [BaseFeePayer EXCEPT !.body.validUntil = NoneV] },
        us \in SeqsUpTo({ [body |-> b, authorization |-> NoneV] : b \in OptBodies }, MaxUpdates) }

InitOpt ==
    /\ js_data \in OptDocuments
    /\ formatted_updates = <<>>
    /\ idx = 0
    /\ rust_code = NoCode
    /\ exit_code = 0
    /\ mpc = "main"
    /\ CmpIdle

SpecOpt == InitOpt /\ [][NextMap]_vars

\* ------------------------------------- the leaf encoders, called one by one
\* js_data holds the leaf handed to the encoder, rust_code what it returns.
DigitStrings == UNION { [1..k -> {DigitChars[i] : i \in 1..10}] : k \in 1..MaxDigits }

FieldLeaves ==
    { NoneV, IntV(2147483647), StrV(<<"2","1","4","7","4","8","3","6","4","7">>),
      StrV(<<>>), StrV(<<"a","b","c">>), StrV(<<"1","x">>), BoolV(TRUE) }
        \cup { IntV(n) : n \in 0..MaxFieldInt }
        \cup { StrV(d) : d \in DigitStrings }

KeyLeaves ==
    { NoneV, StrV(<<"B","6","2","a">>),
      DictV([x |-> IntV(1), isOdd |-> BoolV(TRUE)]),
      DictV([x |-> StrV(<<"1">>)]),
      DictV([y |-> IntV(1)]),
      IntV(5) }

AuthLeaves ==
    { StrV(l) : l \in { S_None, S_Either, S_Proof, S_Signature, S_Impossible, S_Both,
                        <<>>, <<"B","o","g","u","s">> } }

Leaf(encoder, value) == [encoder |-> encoder, value |-> value]

InitEnc ==
    /\ js_data \in { Leaf("format_field", v) : v \in FieldLeaves }
                     \cup { Leaf("format_public_key", v) : v \in KeyLeaves }
                     \cup { Leaf("format_auth_required", v) : v \in AuthLeaves }
    /\ formatted_updates = <<>>
    /\ idx = 0
    /\ rust_code = NoCode
    /\ exit_code = 0
    /\ mpc = "encode"
    /\ CmpIdle

Returned(r) ==
    /\ rust_code' = r
    /\ mpc' = "encoded"
    /\ UNCHANGED <<js_data, formatted_updates, idx, exit_code>>
    /\ UNCHANGED cmpVars

EncodeField ==
    /\ mpc = "encode"
    /\ js_data.encoder = "format_field"
    /\ Returned(format_field(js_data.value))

EncodePublicKey ==
    /\ mpc = "encode"
    /\ js_data.encoder = "format_public_key"
    /\ Returned(format_public_key(js_data.value))

EncodeAuthRequired ==
    /\ mpc = "encode"
    /\ js_data.encoder = "format_auth_required"
    /\ Returned(format_auth_required(js_data.value.s))

NextEnc == EncodeField \/ EncodePublicKey \/ EncodeAuthRequired

SpecEnc == InitEnc /\ [][NextEnc]_vars

\* ------------------------------------------------ claims: array_compare.py
Compared == pc \in {"report", "done"}
Parsed == pc \in {"compare", "report", "done"}

\* The number a reference value stands for: its digits, the marker dropped
RefNumber(v) ==
    IF v.k = "str" THEN IntOfDigits(SelectSeq(v.s, LAMBDA c : c # "n")) ELSE v.n

DiffersAt(i) ==
    \/ convertedA[i + 1][1] # RefNumber(arrayB[i + 1][1])
    \/ convertedA[i + 1][2] # arrayB[i + 1][2]

DiffIndices ==
    { i \in 0..(Len(convertedA) - 1) : i < Len(arrayB) /\ DiffersAt(i) }

\* C1: compare_arrays returns exactly the triples (i, A[i], normalised B[i])
\* for the indices i below both lengths at which value or bit-width differs,
\* each once; a reference "3n" equals a decoded 3, and a differing bit-width
\* alone is a mismatch.
C1_ExactMismatches ==
    Compared =>
        /\ Len(mismatches) = Cardinality(DiffIndices)
        /\ \A i \in DiffIndices : \E j \in 1..Len(mismatches) : mismatches[j][1] = i
        /\ \A j \in 1..Len(mismatches) :
              LET i == mismatches[j][1]
              IN  /\ i \in DiffIndices
                  /\ mismatches[j][2] = convertedA[i + 1]
                  /\ mismatches[j][3] = <<RefNumber(arrayB[i + 1][1]), arrayB[i + 1][2]>>

\* a "3n" reference accepted against a decoded 3, and a width-only mismatch reported
C1_Witness ==
    /\ pc = "done"
    /\ Len(convertedA) = 2 /\ Len(arrayB) = 2
    /\ convertedA[1] = <<3, 32>> /\ arrayB[1] = <<RefStr(<<"3","n">>), 32>>
    /\ convertedA[2] = <<3, 32>> /\ arrayB[2] = <<RefInt(3), 64>>
    /\ mismatches = << <<1, <<3, 32>>, <<3, 64>>>> >>

HasLengthLine ==
    \E j \in 1..Len(stdout) :
        /\ stdout[j].k = "Length mismatch"
        /\ stdout[j].a[1] = Len(convertedA)
        /\ stdout[j].b[1] = Len(arrayB)

\* C2: when the two lengths differ the comparison still completes, a length
\* mismatch is printed, and every reported index lies in the common prefix.
C2_LengthMismatchNonFatal ==
    (pc # "parse" /\ pc # "compare" /\ Len(convertedA) # Len(arrayB)) =>
        /\ pc = "raised" => stdout = <<>>
        /\ Compared =>
              /\ HasLengthLine
              /\ \A j \in 1..Len(mismatches) :
                    /\ mismatches[j][1] < Len(convertedA)
                    /\ mismatches[j][1] < Len(arrayB)

\* decoded longer than the reference, with a mismatch inside the common prefix
C2_Witness ==
    /\ pc = "done"
    /\ Len(convertedA) = 2 /\ Len(arrayB) = 1
    /\ Len(mismatches) = 1
    /\ HasLengthLine

\* A token of the grammar whose value fits its type word
WellFormed(c) ==
    LET t == upper(c.type)
    IN  \/ t = S_BOOL /\ c.k = "text" /\ lower(c.s) \in {S_true, <<"f","a","l","s","e">>}
        \/ t \in {S_U32, S_U64} /\ c.k = "text" /\ isdigit(c.s)
        \/ t = S_BYTES /\ c.k = "list" /\ \A i \in 1..Len(c.items) : c.items[i] \in 0..255

RECURSIVE Pow256(_)
Pow256(n) == IF n = 0 THEN 1 ELSE 256 * Pow256(n - 1)

RECURSIVE BigEndianFrom(_, _)
BigEndianFrom(bytes, i) ==
    IF i > Len(bytes) THEN 0
    ELSE bytes[i] * Pow256(Len(bytes) - i) + BigEndianFrom(bytes, i + 1)

\* The pair the specification gives a well-formed token
ExpectedPair(c) ==
    LET t == upper(c.type)
    IN  IF t = S_BOOL THEN <<IF lower(c.s) = S_true THEN 1 ELSE 0, 1>>
        ELSE IF t = S_U32 THEN <<IntOfDigits(c.s), 32>>
        ELSE IF t = S_U64 THEN <<IntOfDigits(c.s), 64>>
        ELSE <<BigEndianFrom(c.items, 1), 8 * Len(c.items)>>

AllWellFormed == \A i \in 1..Len(textA) : WellFormed(textA[i])

\* C3: a text of well-formed tokens decodes, in order, to one pair per token:
\* BOOL true (1,1), BOOL false (0,1), U32 v (v,32), U64 v (v,64), BYTES of N
\* bytes (their big-endian integer, 8*N).
C3_DecodePerToken ==
    (AllWellFormed /\ pc # "parse") =>
        /\ Parsed
        /\ Len(convertedA) = Len(textA)
        /\ \A i \in 1..Len(textA) : convertedA[i] = ExpectedPair(textA[i])

\* BYTES [1,255] followed by U64 12
C3_Witness ==
    /\ Parsed
    /\ Len(textA) = 2
    /\ upper(textA[1].type) = S_BYTES /\ textA[1].items = <<1, 255>>
    /\ upper(textA[2].type) = S_U64
    /\ convertedA = << <<511, 16>>, <<12, 64>> >>

\* C4: a text with any part that is not a well-formed token makes
\* parse_format_A fail; no partial pair sequence is returned.
C4_GrammarMismatchFatal ==
    (~AllWellFormed /\ pc # "parse") => pc = "raised"

\* --------------------------------------- claims: json_to_zkapp_mapper.py
InputUpdates == IF HasKey(js_data, "accountUpdates") THEN js_data.accountUpdates ELSE <<>>

\* formatted_updates[i] is the record of input update i while the loop runs
InputBody(i) == InputUpdates[i].body

SlotsFollow(slots, input) ==
    /\ Len(slots) = 8
    /\ \A j \in 1..8 :
          j <= Len(input) => (slots[j].is_some <=> input[j].t # "None")

\* C5: whatever the length of the input app-state and account-state arrays,
\* the record's arrays have exactly 8 slots, slot i absent exactly when
\* input entry i is null.
C5_EightSlots ==
    mpc = "done" =>
        \A i \in 1..Len(rust_code.account_updates) :
            /\ SlotsFollow(rust_code.account_updates[i].app_state, InputBody(i).update.appState)
            /\ SlotsFollow(rust_code.account_updates[i].state,
                           InputBody(i).preconditions.account.state)

SgnLabel(i) == InputBody(i).balanceChange.sgn.s

\* C6: the sign of a formatted update is +1 when the label is exactly
\* "Positive" and -1 for every other label; it is never anything else.
C6_SignNormalization ==
    \A i \in 1..Len(formatted_updates) :
        /\ formatted_updates[i].sgn \in {1, -1}
        /\ formatted_updates[i].sgn = 1 <=> SgnLabel(i) = S_Positive

\* one update labelled "Positive" and one with an unrecognized label, both formatted
C6_Witness ==
    /\ Len(formatted_updates) = 2
    /\ SgnLabel(1) = S_Positive /\ formatted_updates[1].sgn = 1
    /\ SgnLabel(2) \notin {S_Positive, S_Negative} /\ formatted_updates[2].sgn = -1

\* C7 as stated: only the label "Negative" yields -1, every other label
\* (an unrecognized string included) yields +1.
C7_DefaultPositive ==
    \A i \in 1..Len(formatted_updates) :
        formatted_updates[i].sgn = (IF SgnLabel(i) = S_Negative THEN -1 ELSE 1)

\* C7 as amended: the sign defaults to -1: "Negative" and every label other
\* than "Positive" (an unrecognized string included) yield -1, and +1 is
\* produced for the label "Positive" alone.
C7_DefaultNegative ==
    \A i \in 1..Len(formatted_updates) :
        /\ SgnLabel(i) = S_Negative => formatted_updates[i].sgn = -1
        /\ SgnLabel(i) \notin {S_Positive, S_Negative} => formatted_updates[i].sgn = -1
        /\ SgnLabel(i) = S_Positive => formatted_updates[i].sgn = 1

\* the record printed with an unrecognized label encoded as -1 after a "Negative" one
C7_Witness ==
    /\ mpc = "done"
    /\ Len(rust_code.account_updates) = 2
    /\ SgnLabel(1) = S_Negative /\ rust_code.account_updates[1].sgn = -1
    /\ SgnLabel(2) = <<"U","n","k","n","o","w","n">> /\ rust_code.account_updates[2].sgn = -1

\* C8: the record has exactly one update per input update, and the update at
\* position i is the encoding of the input update at position i.
C8_PositionalFidelity ==
    mpc = "done" =>
        /\ Len(rust_code.account_updates) = Len(js_data.accountUpdates)
        /\ \A i \in 1..Len(js_data.accountUpdates) :
              /\ rust_code.account_updates[i].comment = i
              /\ rust_code.account_updates[i].public_key.addr = InputBody(i).publicKey.s
              /\ rust_code.account_updates[i] =
                    format_account_update(js_data.accountUpdates[i], i - 1).val

\* two updates with different keys, printed in input order
C8_Witness ==
    /\ mpc = "done"
    /\ Len(js_data.accountUpdates) = 2
    /\ InputBody(1).publicKey.s = <<"B","6","2","b">>
    /\ InputBody(2).publicKey.s = <<"B","6","2","a">>
    /\ rust_code.account_updates[1].public_key.addr = <<"B","6","2","b">>
    /\ rust_code.account_updates[2].public_key.addr = <<"B","6","2","a">>

LacksTopLevelKey == ~HasKeys(js_data, {"memo", "feePayer", "accountUpdates"})
LacksBody(i) == ~HasKey(InputUpdates[i], "body")
SomeUpdateLacksBody == \E i \in 1..Len(InputUpdates) : LacksBody(i)

\* C9: a tree without memo, fee payer or account-updates list, or with an
\* update without body, never yields a record: the run cannot pass the
\* offending update and can only end failed, with nothing printed.
C9_AllOrNothing ==
    (LacksTopLevelKey \/ SomeUpdateLacksBody) =>
        /\ rust_code = NoCode
        /\ mpc \in {"main", "loop", "failed"}
        /\ LacksTopLevelKey => mpc \in {"main", "failed"}
        /\ \A i \in 1..Len(formatted_updates) : ~LacksBody(i)
        /\ mpc = "failed" => exit_code = 1

\* the first update was formatted, the second has no body: the run failed
C9_Witness ==
    /\ mpc = "failed"
    /\ Len(InputUpdates) = 2
    /\ Len(formatted_updates) = 1
    /\ LacksBody(2)
    /\ rust_code = NoCode

BalanceOf(i) == InputBody(i).preconditions.account.balance

\* C10: a range condition that is present but lacks 'lower' or 'upper' makes
\* the mapper fail; no record is produced with a substituted bound.
C10_MissingBoundFails ==
    (\E i \in 1..Len(InputUpdates) :
        /\ ~LacksBody(i)
        /\ BalanceOf(i).t = "dict"
        /\ ~HasKeys(BalanceOf(i).d, {"lower", "upper"}))
    => mpc # "done"

\* ----------------------------------------------- claims: the leaf encoders
Encoded(encoder) == mpc = "encoded" /\ js_data.encoder = encoder

\* what the field-element encoder accepts: null, an integer, a digit string
FieldAccepts(v) == v.t \in {"None", "int"} \/ (v.t = "str" /\ isdigit(v.s))

\* what the public-key encoder accepts: null, an address, an {x, isOdd} pair
KeyAccepts(v) == v.t \in {"None", "str"} \/ (v.t = "dict" /\ HasKey(v.d, "x"))

\* C11: a value the encoder cannot coerce (for format_field a non-digit
\* string or a boolean, for format_public_key any shape but an address, an
\* {x, isOdd} pair or null) is rejected: the call never returns an encoding.
C11_RejectsUncoercible ==
    /\ (Encoded("format_field") /\ ~FieldAccepts(js_data.value)) => rust_code = NoCode
    /\ (Encoded("format_public_key") /\ ~KeyAccepts(js_data.value)) => rust_code = NoCode

KnownAuthLabels == {S_None, S_Either, S_Proof, S_Signature, S_Impossible, S_Both}

\* Two encodings denote one Auth Requirement when they are the same text, or
\* one is AuthRequired::default() and the other spells out the all-false value.
SameAuth(a, b) ==
    \/ a = b
    \/ {a, b} = {AuthRequiredDefault, AuthRequired(FALSE, FALSE, FALSE)}

\* C12: each of the six known labels is mapped to a value of its own (no two
\* known labels share one), and an unknown or empty label is mapped to the
\* value of the label "None".
C12_AuthLabelsOwnValue ==
    Encoded("format_auth_required") =>
        IF js_data.value.s \in KnownAuthLabels
        THEN \A l \in KnownAuthLabels \ {js_data.value.s} :
                ~SameAuth(rust_code, format_auth_required(l))
        ELSE SameAuth(rust_code, format_auth_required(S_None))

\* the canonical decimal text of a non-negative integer
IsDecimalOf(text, n) ==
    /\ isdigit(text)
    /\ Len(text) = 1 \/ text[1] # "0"
    /\ IntOfDigits(text) = n

\* C13: format_field of an unsigned integer n returns what format_field of
\* the decimal-digit string of n returns, and null returns the default field.
C13_IntAndDecimalAgree ==
    Encoded("format_field") =>
        /\ js_data.value.t = "None" => rust_code = FieldDefault
        /\ js_data.value.t = "int" =>
              /\ rust_code.rust = "Field(Fp::from_str)"
              /\ IsDecimalOf(rust_code.text, js_data.value.n)
              /\ rust_code = format_field(StrV(rust_code.text))
        /\ (js_data.value.t = "str" /\ isdigit(js_data.value.s)) =>
              rust_code = FieldFromStr(js_data.value.s)

\* the largest integer of the model, encoded as its ten digits
C13_Witness ==
    /\ Encoded("format_field")
    /\ js_data.value = IntV(2147483647)
    /\ rust_code = FieldFromStr(<<"2","1","4","7","4","8","3","6","4","7">>)

\* --------------------------------- claims: the optional fields of the record
UpdateField(i, key) == GetOrNone(InputBody(i).update, key)

\* C14: every optional field is absent exactly when its input is null and
\* present otherwise: the fee payer's valid-until, and the update's delegate,
\* verification key, permissions, timing and voting-for (an empty mapping is
\* present; a null valid-until is absent).
C14_AbsentIffNull ==
    mpc = "done" =>
        /\ rust_code.fee_payer.valid_until.some <=> js_data.feePayer.body.validUntil.t # "None"
        /\ \A i \in 1..Len(rust_code.account_updates) :
              LET u == rust_code.account_updates[i]
              IN  /\ u.delegate.is_some <=> UpdateField(i, "delegate").t # "None"
                  /\ u.verification_key.is_some <=> UpdateField(i, "verificationKey").t # "None"
                  /\ u.permissions.is_some <=> UpdateField(i, "permissions").t # "None"
                  /\ u.timing.is_some <=> UpdateField(i, "timing").t # "None"
                  /\ u.voting_for.is_some <=> UpdateField(i, "votingFor").t # "None"

\* C15: a non-null zkappUri or tokenSymbol string is marked present and its
\* payload is the byte-string encoding of that string.
C15_StringPayloadKept ==
    mpc = "done" =>
        \A i \in 1..Len(rust_code.account_updates) :
            LET u == rust_code.account_updates[i]
                uri == UpdateField(i, "zkappUri")
                sym == UpdateField(i, "tokenSymbol")
            IN  /\ uri.t = "str" =>
                      u.zkapp_uri.is_some /\ u.zkapp_uri.value.text = escape_string(uri.s)
                /\ sym.t = "str" =>
                      u.token_symbol.is_some /\ u.token_symbol.value.text = escape_string(sym.s)

\* ------------------------------------------ claims: the comparator's outcome
PrintedMatch == \E j \in 1..Len(stdout) : stdout[j] = MatchLine

\* C16: the "match" signal is printed only when the two sequences have the
\* same length and agree in value and bit-width at every position; with
\* differing lengths the outcome is never "match".
C16_MatchOnlyWhenEqual ==
    PrintedMatch => (Len(convertedA) = Len(arrayB) /\ DiffIndices = {})

====
